---- MODULE Spec2Model ----
(***************************************************************************)
(* The per-guild music queue and the playback-advance logic of             *)
(* discord_multibot.py: MusicQueue, music_queues, start_playback_if_needed *)
(* and the commands join / leave / play / skip / stop, together with the   *)
(* speech output of AI replies (speak_text_in_voice), which shares the     *)
(* guild's voice client with the music.                                    *)
(*                                                                         *)
(* All coroutines run on one asyncio event loop: the code between two      *)
(* `await`s is atomic, and every `await` that waits for the outside world  *)
(* (voice gateway, yt_dlp in an executor, a chat message) is a point where *)
(* any other coroutine may run.  One action of the model is one such       *)
(* atomic stretch.                                                         *)
(***************************************************************************)
EXTENDS Integers, Sequences, FiniteSets, TLC

\* ---------------------------------------------------------------- bounds
\* MAX_QUEUE_LENGTH is 50 in the source (line 24); scaled down here.
MAX_QUEUE_LENGTH == 2
\* Song objects ever built by cmd_play, over all guilds.
MaxSongs == 3
\* Entries of one search result (info['entries']).
MaxCand == 2
\* cmd_play coroutines of one guild waiting in extract_info at a time.
MaxSearch == 1
\* speak_text_in_voice coroutines of one guild generating audio at a time.
MaxSpeech == 1
\* cmd_leave coroutines of one guild waiting in disconnect() at a time.
MaxLeave == 1
\* Entries accepted by the stand-alone queue of QSpec between two clears.
MaxUnitIn == 4
\* songs ever requested when two guilds are served
MaxTwoSongs == 2

Guilds == {"g1", "g2"}
Songs == 1..MaxSongs
\* Optional[Song]: the None of MusicQueue.dequeue
None == 0

VARIABLES
    guilds,         \* the guilds the bot serves in this run
    music_queues,   \* dict guild id -> MusicQueue
    connected,      \* guild.voice_client exists and is_connected()
    sink,           \* what the guild's voice client is playing
    pendAdv,        \* start_playback_if_needed coroutines scheduled and not yet run,
                    \* by who called them: cmd_play or an `after` callback
    advTasks,       \* start_playback_if_needed coroutines awaiting build_ffmpeg_source
    searches,       \* cmd_play coroutines awaiting extract_info
    leaving,        \* cmd_leave coroutines awaiting disconnect()
    ttsGen,         \* speak_text_in_voice coroutines generating audio whose voice
                    \* client is still connected
    nextId,         \* identity of the next Song object
    lastPlayed,     \* history: the last song handed to vc.play with success
    lastNote,       \* history: the last message sent about a song or a command
    sinceStop,      \* history: cmd_stop ran and nothing was enqueued since
    uq,             \* QSpec: a MusicQueue on its own
    uPrev,          \* QSpec: that queue before the last call
    uOp, uArg,      \* QSpec: the last call and its argument
    uOk, uRet,      \* QSpec: what enqueue / dequeue returned
    uIn, uOut       \* QSpec: entries accepted / returned since the last clear

mainVars == <<guilds, music_queues, connected, sink, pendAdv, advTasks, searches, leaving,
              ttsGen, nextId, lastPlayed, lastNote, sinceStop>>
unitVars == <<uq, uPrev, uOp, uArg, uOk, uRet, uIn, uOut>>
vars == <<mainVars, unitVars>>

\* ------------------------------------------------------------ MusicQueue
MusicQueue(limit) == [items |-> <<>>, limit |-> limit]

\* enqueue with the bound test off by one (`>` for `>=`)
enqueue_offbyone(mq, item) ==
    IF Len(mq.items) > mq.limit
    THEN [mq |-> mq, ret |-> FALSE]
    ELSE [mq |-> [mq EXCEPT !.items = Append(@, item)], ret |-> TRUE]

\* enqueue that makes room on a full queue by dropping its head
enqueue_evict(mq, item) ==
    IF Len(mq.items) >= mq.limit
    THEN [mq |-> [mq EXCEPT !.items = Append(Tail(@), item)], ret |-> FALSE]
    ELSE [mq |-> [mq EXCEPT !.items = Append(@, item)], ret |-> TRUE]

enqueue(mq, item) ==
    IF Len(mq.items) >= mq.limit
    THEN [mq |-> mq, ret |-> FALSE]
    ELSE [mq |-> [mq EXCEPT !.items = Append(@, item)], ret |-> TRUE]

\* dequeue with pop() for popleft()
dequeue_lifo(mq) ==
    IF mq.items # <<>>
    THEN [mq |-> [mq EXCEPT !.items = SubSeq(@, 1, Len(@) - 1)],
          ret |-> mq.items[Len(mq.items)]]
    ELSE [mq |-> mq, ret |-> None]

dequeue(mq) ==
    IF mq.items # <<>>
    THEN [mq |-> [mq EXCEPT !.items = Tail(@)], ret |-> Head(mq.items)]
    ELSE [mq |-> mq, ret |-> None]

clear(mq) == [mq EXCEPT !.items = <<>>]

len(mq) == Len(mq.items)

\* ------------------------------------------------------------ voice client
Idle == [kind |-> "idle", song |-> None]
Speech == [kind |-> "tts", song |-> None]
Music(s) == [kind |-> "music", song |-> s]

\* vc.is_playing()
is_playing(g) == sink[g].kind # "idle"

\* a message of the bot: its kind and the song it is about (for "added",
\* the number of songs it reports)
Note(k, s) == [kind |-> k, song |-> s]

\* the state of the bot at start-up, serving the guilds `served`
BotInit(served) ==
    /\ guilds = served
    /\ music_queues = << >>
    /\ connected = [g \in Guilds |-> FALSE]
    /\ sink = [g \in Guilds |-> Idle]
    /\ pendAdv = [g \in Guilds |-> [play |-> 0, after |-> 0]]
    /\ advTasks = [g \in Guilds |-> {}]
    /\ searches = [g \in Guilds |-> 0]
    /\ leaving = [g \in Guilds |-> 0]
    /\ ttsGen = [g \in Guilds |-> 0]
    /\ nextId = 1
    /\ lastPlayed = [g \in Guilds |-> None]
    /\ lastNote = [g \in Guilds |-> Note("none", None)]
    /\ sinceStop = [g \in Guilds |-> FALSE]

MainInit == BotInit({"g1"})

UnitInit(limit) ==
    /\ uq = MusicQueue(limit)
    /\ uPrev = MusicQueue(limit)
    /\ uOp = "init"
    /\ uArg = None
    /\ uOk = FALSE
    /\ uRet = None
    /\ uIn = <<>>
    /\ uOut = <<>>

Init == MainInit /\ UnitInit(MAX_QUEUE_LENGTH)

\* ------------------------------------------------------------ helpers
\* d[k] = v on a dict (a function whose domain is its key set)
Put(d, k, v) == [x \in (DOMAIN d) \cup {k} |-> IF x = k THEN v ELSE d[x]]

ensure_queue_for_guild(g) ==
    IF g \notin DOMAIN music_queues
    THEN Put(music_queues, g, MusicQueue(MAX_QUEUE_LENGTH))
    ELSE music_queues

\* The loop of cmd_play over info['entries']: enqueue each candidate, count the
\* accepted ones, break at the first rejection.
RECURSIVE EnqueueAll(_, _, _)
EnqueueAll(mq, cands, added) ==
    IF cands = <<>>
    THEN [mq |-> mq, added |-> added]
    ELSE LET r == enqueue(mq, Head(cands))
         IN IF r.ret
            THEN EnqueueAll(r.mq, Tail(cands), added + 1)
            ELSE [mq |-> r.mq, added |-> added]

\* advances of a guild scheduled and not yet run
Pending(g) == pendAdv[g].play + pendAdv[g].after

\* len(queue) of a guild, 0 when the guild has no queue yet
QLen(g) == IF g \in DOMAIN music_queues THEN len(music_queues[g]) ELSE 0

\* A start_playback_if_needed coroutine suspended in build_ffmpeg_source.
\* stopped / vcLost are history: cmd_stop ran, or the vc it holds was
\* disconnected, while it was suspended.
Task(s) == [song |-> s, stopped |-> FALSE, vcLost |-> FALSE]

\* an `after` callback that schedules the advance twice
AfterPlay_twice(g, was) ==
    IF was.kind = "music" THEN [pendAdv[g] EXCEPT !.after = @ + 2] ELSE pendAdv[g]

\* the `after` callback of a music source: schedules start_playback_if_needed
AfterPlay(g, was) ==
    IF was.kind = "music" THEN [pendAdv[g] EXCEPT !.after = @ + 1] ELSE pendAdv[g]

\* ------------------------------------------------------------ commands
\* cmd_join: connect to the author's voice channel
Join(g) ==
    /\ ~connected[g]
    /\ connected' = [connected EXCEPT ![g] = TRUE]
    /\ UNCHANGED <<guilds, music_queues, sink, pendAdv, advTasks, searches, leaving,
                   ttsGen, nextId, lastPlayed, lastNote, sinceStop>>
    /\ UNCHANGED unitVars

\* cmd_leave up to `await disconnect()`: the voice client stops its player
\* (whose `after` callback fires) and is no longer connected.  A speech
\* coroutine that holds this client ends there: its vc.play will raise.
\* Without a voice client the command only replies that the bot is in no
\* voice channel.
LeaveDisconnect(g) ==
    /\ IF connected[g]
       THEN /\ leaving[g] < MaxLeave
            /\ connected' = [connected EXCEPT ![g] = FALSE]
            /\ sink' = [sink EXCEPT ![g] = Idle]
            /\ pendAdv' = [pendAdv EXCEPT ![g] = AfterPlay(g, sink[g])]
            /\ advTasks' = [advTasks EXCEPT ![g] = {[t EXCEPT !.vcLost = TRUE] : t \in @}]
            /\ ttsGen' = [ttsGen EXCEPT ![g] = 0]
            /\ leaving' = [leaving EXCEPT ![g] = @ + 1]
            /\ UNCHANGED lastNote
       ELSE /\ lastNote' = [lastNote EXCEPT ![g] = Note("novoice", None)]
            /\ UNCHANGED <<connected, sink, pendAdv, advTasks, ttsGen, leaving>>
    /\ UNCHANGED <<guilds, music_queues, searches, nextId, lastPlayed, sinceStop>>
    /\ UNCHANGED unitVars

\* cmd_leave after the disconnect: q = music_queues.get(id); if q: q.clear()
\* (`if q` is false for an absent and for an empty queue)
LeaveClear(g) ==
    /\ leaving[g] > 0
    /\ leaving' = [leaving EXCEPT ![g] = @ - 1]
    /\ music_queues' = IF g \in DOMAIN music_queues /\ len(music_queues[g]) > 0
                       THEN [music_queues EXCEPT ![g] = clear(@)]
                       ELSE music_queues
    /\ UNCHANGED <<guilds, connected, sink, pendAdv, advTasks, searches,
                   ttsGen, nextId, lastPlayed, lastNote, sinceStop>>
    /\ UNCHANGED unitVars

\* cmd_play up to `await extract_info(query)`: connect when there is no voice
\* client (the author being in a voice channel), get or create the queue.
PlayBegin(g) ==
    /\ searches[g] < MaxSearch
    /\ nextId <= MaxSongs
    /\ connected' = [connected EXCEPT ![g] = TRUE]
    /\ music_queues' = ensure_queue_for_guild(g)
    /\ searches' = [searches EXCEPT ![g] = @ + 1]
    /\ UNCHANGED <<guilds, sink, pendAdv, advTasks, leaving, ttsGen,
                   nextId, lastPlayed, lastNote, sinceStop>>
    /\ UNCHANGED unitVars

\* a cmd_play that reports every candidate of the search result as added
PlayEnqueue_reportall(g, n) ==
    /\ searches[g] > 0
    /\ nextId + n - 1 <= MaxSongs
    /\ LET cands == [i \in 1..n |-> nextId + i - 1]
           r == EnqueueAll(music_queues[g], cands, 0)
       IN /\ music_queues' = [music_queues EXCEPT ![g] = r.mq]
          /\ sinceStop' = [sinceStop EXCEPT ![g] = IF r.added > 0 THEN FALSE ELSE @]
          /\ lastNote' = [lastNote EXCEPT ![g] = Note("added", n)]
    /\ nextId' = nextId + n
    /\ searches' = [searches EXCEPT ![g] = @ - 1]
    /\ pendAdv' = [pendAdv EXCEPT ![g].play = @ + 1]
    /\ UNCHANGED <<guilds, connected, sink, advTasks, leaving, ttsGen, lastPlayed>>
    /\ UNCHANGED unitVars

\* cmd_play from the search result (n candidates) to the call of
\* start_playback_if_needed, which is scheduled behind `await ctx.send` of the
\* message that reports songs_added (the count is the second field of the note).
PlayEnqueue(g, n) ==
    /\ searches[g] > 0
    /\ nextId + n - 1 <= MaxSongs
    /\ LET cands == [i \in 1..n |-> nextId + i - 1]
           r == EnqueueAll(music_queues[g], cands, 0)
       IN /\ music_queues' = [music_queues EXCEPT ![g] = r.mq]
          /\ sinceStop' = [sinceStop EXCEPT ![g] = IF r.added > 0 THEN FALSE ELSE @]
          /\ lastNote' = [lastNote EXCEPT ![g] = Note("added", r.added)]
    /\ nextId' = nextId + n
    /\ searches' = [searches EXCEPT ![g] = @ - 1]
    /\ pendAdv' = [pendAdv EXCEPT ![g].play = @ + 1]
    /\ UNCHANGED <<guilds, connected, sink, advTasks, leaving, ttsGen, lastPlayed>>
    /\ UNCHANGED unitVars

\* cmd_play when extract_info raises: the command ends there
PlayFail(g) ==
    /\ searches[g] > 0
    /\ searches' = [searches EXCEPT ![g] = @ - 1]
    /\ UNCHANGED <<guilds, music_queues, connected, sink, pendAdv, advTasks, leaving,
                   ttsGen, nextId, lastPlayed, lastNote, sinceStop>>
    /\ UNCHANGED unitVars

\* a cmd_skip that stops the voice client without asking is_playing()
Skip_unguarded(g) ==
    /\ sink' = [sink EXCEPT ![g] = Idle]
    /\ pendAdv' = [pendAdv EXCEPT ![g].after = @ + 1]
    /\ lastNote' = [lastNote EXCEPT ![g] = Note("skipped", sink[g].song)]
    /\ UNCHANGED <<guilds, music_queues, connected, advTasks, searches, leaving,
                   ttsGen, nextId, lastPlayed, sinceStop>>
    /\ UNCHANGED unitVars

\* cmd_skip: if vc and vc.is_playing(): vc.stop() and the reply "skipped";
\* else only the reply "nothing is playing"
Skip(g) ==
    /\ IF connected[g] /\ is_playing(g)
       THEN /\ sink' = [sink EXCEPT ![g] = Idle]
            /\ pendAdv' = [pendAdv EXCEPT ![g] = AfterPlay(g, sink[g])]
            /\ lastNote' = [lastNote EXCEPT ![g] = Note("skipped", sink[g].song)]
       ELSE /\ lastNote' = [lastNote EXCEPT ![g] = Note("nothing", None)]
            /\ UNCHANGED <<sink, pendAdv>>
    /\ UNCHANGED <<guilds, music_queues, connected, advTasks, searches, leaving,
                   ttsGen, nextId, lastPlayed, sinceStop>>
    /\ UNCHANGED unitVars

\* a cmd_stop that clears the queue of every guild
Stop_everywhere(g) ==
    /\ connected[g]
    /\ sink' = [sink EXCEPT ![g] = Idle]
    /\ pendAdv' = [pendAdv EXCEPT ![g] = AfterPlay(g, sink[g])]
    /\ music_queues' = [h \in DOMAIN music_queues |-> clear(music_queues[h])]
    /\ advTasks' = [advTasks EXCEPT ![g] = {[t EXCEPT !.stopped = TRUE] : t \in @}]
    /\ sinceStop' = [sinceStop EXCEPT ![g] = TRUE]
    /\ lastNote' = [lastNote EXCEPT ![g] = Note("stopped", sink[g].song)]
    /\ UNCHANGED <<guilds, connected, searches, leaving, ttsGen, nextId, lastPlayed>>
    /\ UNCHANGED unitVars

\* cmd_stop without its q.clear()
Stop_noclear(g) ==
    /\ connected[g]
    /\ sink' = [sink EXCEPT ![g] = Idle]
    /\ pendAdv' = [pendAdv EXCEPT ![g].after = IF sink[g].kind = "music" THEN @ + 1 ELSE @]
    /\ advTasks' = [advTasks EXCEPT ![g] = {[t EXCEPT !.stopped = TRUE] : t \in @}]
    /\ sinceStop' = [sinceStop EXCEPT ![g] = TRUE]
    /\ lastNote' = [lastNote EXCEPT ![g] = Note("stopped", sink[g].song)]
    /\ UNCHANGED <<guilds, music_queues, connected, searches, leaving, ttsGen,
                   nextId, lastPlayed>>
    /\ UNCHANGED unitVars

\* cmd_stop: if vc: vc.stop(); q = music_queues.get(id); if q: q.clear(),
\* and the reply; without a voice client only the reply that the bot is in no
\* voice channel
Stop(g) ==
    /\ IF connected[g]
       THEN /\ sink' = [sink EXCEPT ![g] = Idle]
            /\ pendAdv' = [pendAdv EXCEPT ![g] = AfterPlay(g, sink[g])]
            /\ music_queues' = IF g \in DOMAIN music_queues /\ len(music_queues[g]) > 0
                               THEN [music_queues EXCEPT ![g] = clear(@)]
                               ELSE music_queues
            /\ advTasks' = [advTasks EXCEPT ![g] = {[t EXCEPT !.stopped = TRUE] : t \in @}]
            /\ sinceStop' = [sinceStop EXCEPT ![g] = TRUE]
            /\ lastNote' = [lastNote EXCEPT ![g] = Note("stopped", sink[g].song)]
       ELSE /\ lastNote' = [lastNote EXCEPT ![g] = Note("novoice", None)]
            /\ UNCHANGED <<sink, pendAdv, music_queues, advTasks, sinceStop>>
    /\ UNCHANGED <<guilds, connected, searches, leaving, ttsGen, nextId, lastPlayed>>
    /\ UNCHANGED unitVars

\* ------------------------------------------------------------ the advance
\* the callers of start_playback_if_needed: cmd_play and _after_play
Origins == {"play", "after"}

\* a start_playback_if_needed without its first test (vc connected)
AdvanceStart_noconn(g, o) ==
    /\ pendAdv[g][o] > 0
    /\ pendAdv' = [pendAdv EXCEPT ![g][o] = @ - 1]
    /\ IF /\ g \in DOMAIN music_queues
          /\ len(music_queues[g]) # 0
          /\ ~is_playing(g)
       THEN LET d == dequeue(music_queues[g])
            IN /\ music_queues' = [music_queues EXCEPT ![g] = d.mq]
               /\ advTasks' = [advTasks EXCEPT ![g] = @ \cup {Task(d.ret)}]
       ELSE UNCHANGED <<music_queues, advTasks>>
    /\ UNCHANGED <<guilds, connected, sink, searches, leaving, ttsGen,
                   nextId, lastPlayed, lastNote, sinceStop>>
    /\ UNCHANGED unitVars

\* a start_playback_if_needed that dequeues without asking vc.is_playing()
AdvanceStart_busy(g, o) ==
    /\ pendAdv[g][o] > 0
    /\ pendAdv' = [pendAdv EXCEPT ![g][o] = @ - 1]
    /\ IF /\ connected[g]
          /\ g \in DOMAIN music_queues
          /\ len(music_queues[g]) # 0
       THEN LET d == dequeue(music_queues[g])
            IN /\ music_queues' = [music_queues EXCEPT ![g] = d.mq]
               /\ advTasks' = [advTasks EXCEPT ![g] = @ \cup {Task(d.ret)}]
       ELSE UNCHANGED <<music_queues, advTasks>>
    /\ UNCHANGED <<guilds, connected, sink, searches, leaving, ttsGen,
                   nextId, lastPlayed, lastNote, sinceStop>>
    /\ UNCHANGED unitVars

\* start_playback_if_needed up to `await build_ffmpeg_source(song.url)`
AdvanceStart(g, o) ==
    /\ pendAdv[g][o] > 0
    /\ pendAdv' = [pendAdv EXCEPT ![g][o] = @ - 1]
    /\ IF /\ connected[g]
          /\ g \in DOMAIN music_queues
          /\ len(music_queues[g]) # 0
          /\ ~is_playing(g)
          /\ dequeue(music_queues[g]).ret # None
       THEN LET d == dequeue(music_queues[g])
            IN /\ music_queues' = [music_queues EXCEPT ![g] = d.mq]
               /\ advTasks' = [advTasks EXCEPT ![g] = @ \cup {Task(d.ret)}]
       ELSE UNCHANGED <<music_queues, advTasks>>
    /\ UNCHANGED <<guilds, connected, sink, searches, leaving, ttsGen,
                   nextId, lastPlayed, lastNote, sinceStop>>
    /\ UNCHANGED unitVars

\* build_ffmpeg_source returned: vc.play(source, after=_after_play) and the
\* "now playing" message; vc.play raises ClientException when the client is not
\* connected or is already playing, which the `except Exception` turns into
\* the error message.
ResolveOK(g, t) ==
    /\ t \in advTasks[g]
    /\ advTasks' = [advTasks EXCEPT ![g] = @ \ {t}]
    /\ IF connected[g] /\ ~t.vcLost /\ ~is_playing(g)
       THEN /\ sink' = [sink EXCEPT ![g] = Music(t.song)]
            /\ lastPlayed' = [lastPlayed EXCEPT ![g] = t.song]
            /\ lastNote' = [lastNote EXCEPT ![g] = Note("playing", t.song)]
       ELSE /\ lastNote' = [lastNote EXCEPT ![g] = Note("error", t.song)]
            /\ UNCHANGED <<sink, lastPlayed>>
    /\ UNCHANGED <<guilds, music_queues, connected, pendAdv, searches, leaving,
                   ttsGen, nextId, sinceStop>>
    /\ UNCHANGED unitVars

\* an except branch that puts the failed entry back into the queue
ResolveFail_requeue(g, t) ==
    /\ t \in advTasks[g]
    /\ advTasks' = [advTasks EXCEPT ![g] = @ \ {t}]
    /\ music_queues' = [music_queues EXCEPT ![g] = enqueue(@, t.song).mq]
    /\ lastNote' = [lastNote EXCEPT ![g] = Note("error", t.song)]
    /\ UNCHANGED <<guilds, connected, sink, pendAdv, searches, leaving,
                   ttsGen, nextId, lastPlayed, sinceStop>>
    /\ UNCHANGED unitVars

\* build_ffmpeg_source raised: the except branch sends the error message
ResolveFail(g, t) ==
    /\ t \in advTasks[g]
    /\ advTasks' = [advTasks EXCEPT ![g] = @ \ {t}]
    /\ lastNote' = [lastNote EXCEPT ![g] = Note("error", t.song)]
    /\ UNCHANGED <<guilds, music_queues, connected, sink, pendAdv, searches, leaving,
                   ttsGen, nextId, lastPlayed, sinceStop>>
    /\ UNCHANGED unitVars

\* the player of a music source ends by itself (end of track or sink error):
\* its `after` callback runs _after_play
TrackEnd(g) ==
    /\ sink[g].kind = "music"
    /\ sink' = [sink EXCEPT ![g] = Idle]
    /\ pendAdv' = [pendAdv EXCEPT ![g] = AfterPlay(g, sink[g])]
    /\ UNCHANGED <<guilds, music_queues, connected, advTasks, searches, leaving,
                   ttsGen, nextId, lastPlayed, lastNote, sinceStop>>
    /\ UNCHANGED unitVars

\* ------------------------------------------------------------ speech
\* on_message -> speak_text_in_voice up to `await run_in_executor(_generate_audio)`
SpeakBegin(g) ==
    /\ connected[g]
    /\ ttsGen[g] < MaxSpeech
    /\ ttsGen' = [ttsGen EXCEPT ![g] = @ + 1]
    /\ UNCHANGED <<guilds, music_queues, connected, sink, pendAdv, advTasks, searches,
                   leaving, nextId, lastPlayed, lastNote, sinceStop>>
    /\ UNCHANGED unitVars

\* speak_text_in_voice: vc.play(source, after=_after_play); raises (and the
\* coroutine ends) when the client is already playing
SpeakPlay(g) ==
    /\ ttsGen[g] > 0
    /\ ttsGen' = [ttsGen EXCEPT ![g] = @ - 1]
    /\ sink' = IF is_playing(g) THEN sink ELSE [sink EXCEPT ![g] = Speech]
    /\ UNCHANGED <<guilds, music_queues, connected, pendAdv, advTasks, searches,
                   leaving, nextId, lastPlayed, lastNote, sinceStop>>
    /\ UNCHANGED unitVars

\* the speech source ends; its `after` callback only removes the temp file
SpeechEnd(g) ==
    /\ sink[g].kind = "tts"
    /\ sink' = [sink EXCEPT ![g] = Idle]
    /\ UNCHANGED <<guilds, music_queues, connected, pendAdv, advTasks, searches,
                   leaving, ttsGen, nextId, lastPlayed, lastNote, sinceStop>>
    /\ UNCHANGED unitVars

Next ==
    \/ \E g \in guilds : Join(g)
    \/ \E g \in guilds : LeaveDisconnect(g)
    \/ \E g \in guilds : LeaveClear(g)
    \/ \E g \in guilds : PlayBegin(g)
    \/ \E g \in guilds : \E n \in 1..MaxCand : PlayEnqueue(g, n)
    \/ \E g \in guilds : PlayFail(g)
    \/ \E g \in guilds : Skip(g)
    \/ \E g \in guilds : Stop(g)
    \/ \E g \in guilds : \E o \in Origins : AdvanceStart(g, o)
    \/ \E g \in guilds : \E t \in advTasks[g] : ResolveOK(g, t)
    \/ \E g \in guilds : \E t \in advTasks[g] : ResolveFail(g, t)
    \/ \E g \in guilds : TrackEnd(g)
    \/ \E g \in guilds : SpeakBegin(g)
    \/ \E g \in guilds : SpeakPlay(g)
    \/ \E g \in guilds : SpeechEnd(g)

Spec == Init /\ [][Next]_vars

\* The event loop runs every scheduled coroutine, build_ffmpeg_source returns
\* or raises, and a source that is playing ends.  What users do, and how long
\* a search or a speech synthesis takes, is under no fairness.
Fairness ==
    \A g \in Guilds :
        /\ \A o \in Origins : WF_vars(AdvanceStart(g, o))
        /\ WF_vars(\E t \in advTasks[g] : ResolveOK(g, t) \/ ResolveFail(g, t))
        /\ WF_vars(TrackEnd(g))
        /\ WF_vars(SpeechEnd(g))

FairSpec == Init /\ [][Next]_vars /\ Fairness

\* The bot with play requests, advances and the ends of tracks only: nobody
\* stops, skips, leaves or makes the bot speak.
NextCalm ==
    \/ \E g \in guilds : Join(g)
    \/ \E g \in guilds : PlayBegin(g)
    \/ \E g \in guilds : \E n \in 1..MaxCand : PlayEnqueue(g, n)
    \/ \E g \in guilds : PlayFail(g)
    \/ \E g \in guilds : \E o \in Origins : AdvanceStart(g, o)
    \/ \E g \in guilds : \E t \in advTasks[g] : ResolveOK(g, t)
    \/ \E g \in guilds : \E t \in advTasks[g] : ResolveFail(g, t)
    \/ \E g \in guilds : TrackEnd(g)

CalmSpec == Init /\ [][NextCalm]_vars

CalmFairSpec == Init /\ [][NextCalm]_vars /\ Fairness

\* The bot with play requests, advances, ends of tracks and speech, every
\* resolution succeeding: nobody stops, skips or leaves.
NextSpeech ==
    \/ \E g \in guilds : Join(g)
    \/ \E g \in guilds : PlayBegin(g)
    \/ \E g \in guilds : \E n \in 1..MaxCand : PlayEnqueue(g, n)
    \/ \E g \in guilds : PlayFail(g)
    \/ \E g \in guilds : \E o \in Origins : AdvanceStart(g, o)
    \/ \E g \in guilds : \E t \in advTasks[g] : ResolveOK(g, t)
    \/ \E g \in guilds : TrackEnd(g)
    \/ \E g \in guilds : SpeakBegin(g)
    \/ \E g \in guilds : SpeakPlay(g)
    \/ \E g \in guilds : SpeechEnd(g)

SpeechFairSpec == Init /\ [][NextSpeech]_vars /\ Fairness

\* The bot serving both guilds, with the commands of the music player
\* (join, play, skip, stop, leave), the advance and the ends of tracks.
TwoInit == BotInit(Guilds) /\ UnitInit(MAX_QUEUE_LENGTH)

NextTwo ==
    \/ \E g \in guilds : Join(g)
    \/ \E g \in guilds : LeaveDisconnect(g)
    \/ \E g \in guilds : LeaveClear(g)
    \/ \E g \in guilds : nextId <= MaxTwoSongs /\ PlayBegin(g)
    \/ \E g \in guilds : \E n \in 1..MaxCand :
          nextId + n - 1 <= MaxTwoSongs /\ PlayEnqueue(g, n)
    \/ \E g \in guilds : PlayFail(g)
    \/ \E g \in guilds : Skip(g)
    \/ \E g \in guilds : Stop(g)
    \/ \E g \in guilds : \E o \in Origins : AdvanceStart(g, o)
    \/ \E g \in guilds : \E t \in advTasks[g] : ResolveOK(g, t)
    \/ \E g \in guilds : \E t \in advTasks[g] : ResolveFail(g, t)
    \/ \E g \in guilds : TrackEnd(g)

TwoSpec == TwoInit /\ [][NextTwo]_vars

\* ------------------------------------------------------------ MusicQueue alone
\* One MusicQueue object driven by arbitrary calls of its methods.
QInit == MainInit /\ \E limit \in 1..MAX_QUEUE_LENGTH : UnitInit(limit)

UEnqueue(item) ==
    /\ Len(uIn) < MaxUnitIn
    /\ LET r == enqueue(uq, item)
       IN /\ uq' = r.mq
          /\ uOk' = r.ret
          /\ uIn' = IF r.ret THEN Append(uIn, item) ELSE uIn
    /\ uPrev' = uq
    /\ uOp' = "enqueue"
    /\ uArg' = item
    /\ UNCHANGED <<uRet, uOut>>
    /\ UNCHANGED mainVars

UDequeue ==
    /\ LET r == dequeue(uq)
       IN /\ uq' = r.mq
          /\ uRet' = r.ret
          /\ uOut' = IF r.ret # None THEN Append(uOut, r.ret) ELSE uOut
    /\ uPrev' = uq
    /\ uOp' = "dequeue"
    /\ uArg' = None
    /\ UNCHANGED <<uOk, uIn>>
    /\ UNCHANGED mainVars

UClear ==
    /\ uq' = clear(uq)
    /\ uPrev' = uq
    /\ uOp' = "clear"
    /\ uArg' = None
    /\ uIn' = <<>>
    /\ uOut' = <<>>
    /\ UNCHANGED <<uOk, uRet>>
    /\ UNCHANGED mainVars

QNext ==
    \/ \E item \in Songs : UEnqueue(item)
    \/ UDequeue
    \/ UClear

QSpec == QInit /\ [][QNext]_vars

\* ============================================================ properties

\* C1: in every reachable state, every guild's queue holds at most `limit`
\* entries, and its limit is still the MAX_QUEUE_LENGTH it was built with.
C1_QueueWithinLimit ==
    \A g \in DOMAIN music_queues :
        /\ len(music_queues[g]) <= music_queues[g].limit
        /\ music_queues[g].limit = MAX_QUEUE_LENGTH

\* a full queue on which a further candidate of a play command was rejected:
\* more songs were built than the queue took, none was dequeued or cleared
C1_Witness ==
    \E g \in DOMAIN music_queues :
        /\ len(music_queues[g]) = MAX_QUEUE_LENGTH
        /\ nextId - 1 > MAX_QUEUE_LENGTH
        /\ music_queues[g].items = [i \in 1..MAX_QUEUE_LENGTH |-> i]
        /\ searches[g] = 0

\* C2: FIFO.  The entries returned by dequeue so far, followed by the entries
\* still queued, are the accepted entries in the order of their acceptance (so
\* n dequeues after n accepted enqueues return E1..En in that order); and a
\* dequeue on an empty queue returns None and leaves the queue as it was.
C2_Fifo ==
    /\ uOut \o uq.items = uIn
    /\ (uOp = "dequeue" /\ uPrev.items # <<>>) =>
           /\ uRet = Head(uPrev.items)
           /\ uq.items = Tail(uPrev.items)
    /\ (uOp = "dequeue" /\ uPrev.items = <<>>) =>
           /\ uRet = None
           /\ uq = uPrev

\* two accepted enqueues, as many dequeues, and one dequeue more
C2_Witness ==
    /\ Len(uIn) >= 2
    /\ uIn[1] # uIn[2]
    /\ uOut = uIn
    /\ uOp = "dequeue"
    /\ uPrev.items = <<>>
    /\ uRet = None

\* C3: enqueue on a queue whose length equals its limit returns False and
\* leaves the queue unchanged; enqueue on a shorter queue returns True and the
\* queue is the old one with the entry appended at its tail.
C3_EnqueueAtCapacity ==
    uOp = "enqueue" =>
        IF Len(uPrev.items) >= uPrev.limit
        THEN /\ uOk = FALSE
             /\ uq = uPrev
        ELSE /\ uOk = TRUE
             /\ uq.items = Append(uPrev.items, uArg)
             /\ uq.limit = uPrev.limit

\* capacity 2, two entries queued, a third enqueue rejected
C3_Witness ==
    /\ uOp = "enqueue"
    /\ uPrev.limit = 2
    /\ Len(uPrev.items) = 2
    /\ uOk = FALSE
    /\ Len(uq.items) = 2

\* C4: when the stream of a dequeued entry cannot be resolved, the error
\* message goes to the entry's channel, the entry is not handed to the voice
\* client, and, entries being left in the queue, the advance is invoked again
\* (one more advance is scheduled, or the next entry is dequeued at once).
C4_FailureAdvances ==
    [][\A g \in Guilds : \A t \in advTasks[g] :
          ResolveFail(g, t) =>
              /\ lastNote'[g] = Note("error", t.song)
              /\ sink' = sink
              /\ lastPlayed' = lastPlayed
              /\ QLen(g) > 0 => (Pending(g)' > Pending(g) \/ QLen(g)' < QLen(g))]_vars

\* playback attempts of a guild in flight: entries dequeued and being
\* resolved, and the track the voice client is playing
Attempts(g) ==
    Cardinality(advTasks[g]) + (IF sink[g].kind = "music" THEN 1 ELSE 0)

\* C5: however the advance invocations of one guild interleave, at most one
\* playback attempt of the guild is in flight.
C5_OneAttempt == \A g \in Guilds : Attempts(g) <= 1

\* C6: an advance that starts while another advance of the guild has dequeued
\* its entry and is still resolving it changes nothing: no entry is dequeued,
\* no resolution starts, no message is sent.
C6_SecondAdvanceNoOp ==
    [][\A g \in Guilds :
          ((\E o \in Origins : AdvanceStart(g, o)) /\ advTasks[g] # {}) =>
              UNCHANGED <<music_queues, advTasks, sink, lastNote>>]_vars

\* nothing of the guild is playing, resolving or scheduled
Quiet(g) == ~is_playing(g) /\ advTasks[g] = {} /\ Pending(g) = 0

\* C7: right after cmd_stop on a connected guild the queue is empty and the
\* voice client is not playing; as long as nothing is enqueued after the stop
\* the queue stays empty and every advance (the one of the completion callback
\* included) dequeues nothing and starts nothing; and the guild gets quiet:
\* nothing playing, nothing resolving, no advance scheduled.
C7_StopEmpties ==
    /\ [](\A g \in Guilds : sinceStop[g] => QLen(g) = 0)
    /\ [][\A g \in Guilds :
             /\ (Stop(g) /\ connected[g]) => (QLen(g)' = 0 /\ ~is_playing(g)')
             /\ ((\E o \in Origins : AdvanceStart(g, o)) /\ sinceStop[g]) =>
                    UNCHANGED <<music_queues, advTasks, sink, lastPlayed>>]_vars
    /\ \A g \in Guilds : sinceStop[g] ~> (Quiet(g) \/ ~sinceStop[g])

\* stop ended a playing track, the advance of its callback ran, nothing started
C7_Witness ==
    \E g \in Guilds :
        /\ sinceStop[g]
        /\ lastNote[g].kind = "stopped"
        /\ lastNote[g].song # None
        /\ connected[g]
        /\ Quiet(g)

\* C8: an entry dequeued before a cmd_stop and resolved after it is not handed
\* to the voice client.
C8_NoLatePlayback ==
    [][\A g \in Guilds : \A t \in advTasks[g] :
          (ResolveOK(g, t) /\ t.stopped) =>
              /\ sink'[g] = sink[g]
              /\ lastPlayed'[g] = lastPlayed[g]]_vars

\* C9: every end of a track (by itself, by a sink error, by skip, stop or
\* leave) schedules exactly one advance; and an advance called by the callback that runs on
\* a guild that is connected, has entries queued and plays no track dequeues the head
\* entry and starts to resolve it.
C9_CompletionAdvances ==
    [][\A g \in Guilds :
          /\ (sink[g].kind = "music" /\ sink'[g] # sink[g]) =>
                 pendAdv'[g] = [pendAdv[g] EXCEPT !.after = @ + 1]
          /\ (AdvanceStart(g, "after") /\ connected[g] /\ QLen(g) > 0
                  /\ sink[g].kind # "music") =>
                 /\ QLen(g)' = QLen(g) - 1
                 /\ Task(Head(music_queues[g].items)) \in advTasks'[g]]_vars

C11_SkipIdleNoOp ==
    [][\A g \in Guilds :
          (Skip(g) /\ ~is_playing(g)) =>
              UNCHANGED <<music_queues, connected, sink, pendAdv, advTasks,
                          lastPlayed, searches>>]_vars

\* skip answered "nothing is playing" while an advance resolves an entry and
\* another entry waits
C11_Witness ==
    \E g \in Guilds :
        /\ lastNote[g] = Note("nothing", None)
        /\ ~is_playing(g)
        /\ advTasks[g] # {}
        /\ QLen(g) > 0

\* a resolved entry is handed to the voice client by this step
Plays(g, t) == ResolveOK(g, t) /\ sink'[g] = Music(t.song)

\* C12: with play requests, advances and ends of tracks only, the entries
\* handed to the voice client follow the order of their acceptance into the
\* queue (song identities grow in that order): an entry handed over was
\* accepted after the entry handed over before it.
C12_PlaybackInOrder ==
    [][\A g \in Guilds : \A t \in advTasks[g] :
          Plays(g, t) => t.song > lastPlayed[g]]_vars

\* where an entry is: in the queue, held by an advance that resolves it, or in
\* the voice client
InQueue(g, s) ==
    g \in DOMAIN music_queues /\ \E i \in 1..len(music_queues[g]) : music_queues[g].items[i] = s

Resolving(g, s) == \E t \in advTasks[g] : t.song = s

InSink(g, s) == sink[g] = Music(s)

Copies(g, s) ==
    (IF g \in DOMAIN music_queues
     THEN Cardinality({i \in 1..len(music_queues[g]) : music_queues[g].items[i] = s})
     ELSE 0)
    + Cardinality({t \in advTasks[g] : t.song = s})
    + (IF InSink(g, s) THEN 1 ELSE 0)

\* C13: an entry enters the queue only when it is new, enters a resolution
\* only by leaving the queue, enters the voice client only by leaving its
\* resolution, and is in one of these places at most once: it is dequeued,
\* resolved and played at most once and is never put back.
C13_PoppedOnce ==
    [][\A g \in Guilds : \A s \in Songs :
          /\ InQueue(g, s)' => (InQueue(g, s) \/ s >= nextId)
          /\ Resolving(g, s)' => (Resolving(g, s) \/ (InQueue(g, s) /\ ~InQueue(g, s)'))
          /\ InSink(g, s)' => (InSink(g, s) \/ (Resolving(g, s) /\ ~Resolving(g, s)'))
          /\ Copies(g, s)' <= 1]_vars

C13_Witness ==
    \E g \in Guilds : \E s \in Songs :
        /\ lastNote[g] = Note("error", s)
        /\ Copies(g, s) = 0
        /\ lastPlayed[g] \notin {None, s}
        /\ Copies(g, lastPlayed[g]) = 0
        /\ QLen(g) > 0

Min(a, b) == IF a < b THEN a ELSE b

\* C14: a play request whose search ends while the guild has no voice
\* connection still fills the queue (up to its limit), and an advance run
\* without a connection dequeues nothing, starts no resolution, plays nothing
\* and sends nothing.
C14_NoConnectionNoOp ==
    [][\A g \in Guilds :
          /\ \A n \in 1..MaxCand :
                (PlayEnqueue(g, n) /\ ~connected[g]) =>
                    QLen(g)' = Min(QLen(g) + n, music_queues[g].limit)
          /\ \A o \in Origins :
                (AdvanceStart(g, o) /\ ~connected[g]) =>
                    UNCHANGED <<music_queues, advTasks, sink, lastPlayed, lastNote>>]_vars

\* the queue was filled after the disconnect and the advance of that play
\* request has run
C14_Witness ==
    \E g \in Guilds :
        /\ ~connected[g]
        /\ leaving[g] = 0
        /\ searches[g] = 0
        /\ QLen(g) > 0
        /\ Pending(g) = 0
        /\ advTasks[g] = {}

\* C15: an advance run while the voice client is playing, or on an empty
\* queue, leaves the queue, the resolutions in flight, the playback and the
\* messages as they were.
C15_BusyOrEmptyNoOp ==
    [][\A g \in Guilds : \A o \in Origins :
          (AdvanceStart(g, o) /\ (is_playing(g) \/ QLen(g) = 0)) =>
              UNCHANGED <<music_queues, advTasks, sink, lastPlayed, lastNote>>]_vars

\* a second play request filled the queue behind the playing track and its
\* advance has run
C15_Witness ==
    \E g \in Guilds : \E s \in Songs :
        /\ connected[g]
        /\ sink[g] = Music(s)
        /\ lastNote[g] = Note("playing", s)
        /\ QLen(g) = MAX_QUEUE_LENGTH
        /\ \A i \in 1..QLen(g) : music_queues[g].items[i] > s
        /\ searches[g] = 0
        /\ Pending(g) = 0
        /\ advTasks[g] = {}

\* cmd_leave ends: in its no-voice branch at once, else with its q.clear()
LeaveEnds(g) == LeaveClear(g) \/ (LeaveDisconnect(g) /\ ~connected[g])

\* C16: a guild that has a queue in music_queues keeps it, with the same
\* limit, at every step; cmd_stop and cmd_leave leave the queue of the guild
\* in the store with length 0.
C16_QueueKept ==
    [][\A g \in Guilds :
          /\ g \in DOMAIN music_queues =>
                /\ g \in DOMAIN music_queues'
                /\ music_queues'[g].limit = music_queues[g].limit
          /\ (Stop(g) \/ LeaveEnds(g)) => QLen(g)' = 0]_vars

\* what the bot holds for one guild: its queue (if any), its voice client and
\* what it plays, the advances scheduled and suspended, the searches under way
GuildState(h) ==
    <<IF h \in DOMAIN music_queues THEN <<music_queues[h]>> ELSE <<>>,
      connected[h], sink[h], pendAdv[h], advTasks[h], searches[h], leaving[h],
      lastPlayed[h], lastNote[h]>>

\* a step of a command, an advance or a callback of guild g
ActsOn(g) ==
    \/ Join(g)
    \/ LeaveDisconnect(g)
    \/ LeaveClear(g)
    \/ PlayBegin(g)
    \/ \E n \in 1..MaxCand : PlayEnqueue(g, n)
    \/ PlayFail(g)
    \/ Skip(g)
    \/ Stop(g)
    \/ \E o \in Origins : AdvanceStart(g, o)
    \/ \E t \in advTasks[g] : ResolveOK(g, t) \/ ResolveFail(g, t)
    \/ TrackEnd(g)

\* C17: a step of guild g (play, skip, stop, leave, advance, end of track)
\* leaves the queue, the voice client and the playback of every other guild
\* as they were.
C17_GuildsIndependent ==
    [][\A g \in Guilds : ActsOn(g) =>
          \A h \in Guilds \ {g} : GuildState(h)' = GuildState(h)]_vars

\* one guild stopped its track while the other guild is playing its own
C17_Witness ==
    \E g \in Guilds : \E h \in Guilds \ {g} :
        /\ lastNote[g].kind = "stopped"
        /\ lastNote[g].song # None
        /\ sink[h].kind = "music"
        /\ lastNote[h] = Note("playing", sink[h].song)
        /\ lastPlayed[g] > lastPlayed[h]

\* C18: with play requests, advances and ends of tracks only, an entry whose
\* resolution succeeds is handed to the voice client and announced as now
\* playing (the error message is for a failed resolution only), and every
\* entry in the queue is eventually taken out of it for its attempt.
C18_NoEntryLost ==
    /\ [][\A g \in Guilds : \A t \in advTasks[g] :
             ResolveOK(g, t) =>
                 (Plays(g, t) /\ lastNote'[g] = Note("playing", t.song))]_vars
    /\ \A g \in Guilds : \A s \in Songs : InQueue(g, s) ~> ~InQueue(g, s)

\* C19: with no stop, skip or leave and every resolution succeeding, whenever
\* speech holds the voice client while the queue is not empty or an advance
\* is resolving an entry, music is eventually playing.
C19_SpeechKeepsMusic ==
    \A g \in Guilds :
        (sink[g] = Speech /\ (QLen(g) > 0 \/ advTasks[g] # {})) ~> (sink[g].kind = "music")

\* C20: a play request whose search result holds n candidates, on a queue
\* with f free slots, appends the first min(n, f) candidates in their order at
\* the tail, reports that number as added, and schedules one advance.
C20_PlayAddsPrefix ==
    [][\A g \in Guilds : \A n \in 1..MaxCand :
          PlayEnqueue(g, n) =>
              LET f == music_queues[g].limit - QLen(g)
                  k == Min(n, f)
              IN /\ music_queues'[g].items =
                        music_queues[g].items \o [i \in 1..k |-> nextId + i - 1]
                 /\ lastNote'[g] = Note("added", k)
                 /\ pendAdv'[g] = [pendAdv[g] EXCEPT !.play = @ + 1]]_vars

\* of two candidates the first was accepted into the last free slot and the
\* second rejected
C20_Witness ==
    \E g \in Guilds :
        /\ lastNote[g] = Note("added", 1)
        /\ nextId = 4
        /\ music_queues[g].items = <<1, 2>>
====
